---------------------------- MODULE Spec2Model ----------------------------
(***************************************************************************)
(* State-machine model of src/app.js (field GPS web app): the position     *)
(* handler onPosition, the waypoint collection, the track, the history     *)
(* buffers, the averaging session, the navigation target with its overlay, *)
(* line and arrow, the compass, the GPS status and the UTM zone/band       *)
(* helpers and the CSV log.                                                *)
(*                                                                         *)
(* Specifications.  Spec is the whole application, SpecAvg the averaging   *)
(* dialog over longer runs, SpecHist the history buffers over a long run   *)
(* of fixes, SpecUtm toUtm over every whole-degree position, SpecRel the   *)
(* relative bearing of setNavArrow over every whole-degree pair, SpecWp    *)
(* the application started with a stored waypoint collection and SpecLog   *)
(* the fix handler with the CSV log, the go-to dialog and the settings.    *)
(*                                                                         *)
(* Units.  In the specification Spec a position is a pair <<lat, lon>> of  *)
(* offsets (north, east) from the point (0 N, 0 E), in sixtieths of a      *)
(* metre; at that scale turf.distance is the planar distance and           *)
(* turf.bearing the planar azimuth.  In the specification SpecUtm latitude and longitude are whole *)
(* degrees.  JavaScript null and NaN are the sentinels Null and NaN.       *)
(***************************************************************************)
EXTENDS Integers, Sequences, FiniteSets, TLC

VARIABLES
    lastPosition,    \* let lastPosition: the coords of the last fix, or NoFix
    trackCoords,     \* let trackCoords: sequence of <<lat, lon>>
    waypoints,       \* let waypoints: sequence of waypoint records
    settings,        \* let settings: [maxAccM, alertRadiusM]
    speedHistory,    \* let speedHistory (km/h)
    altHistory,      \* let altHistory (m)
    trackingEnabled, \* let trackingEnabled
    averaging,       \* let averaging: [active, samples]
    loggingCsv,      \* let loggingCsv: [active, rows]
    navTarget,       \* let navTarget: [lat, lon, label], or NoTarget for null
    navLine,         \* let navLine: the two ends of the polyline, or NoLine
    navOverlay,      \* #nav-overlay: the text it shows, or OverlayHidden
    navArrow,        \* #nav-arrow: [rel, bearing, d2], or ArrowHidden
    compass,         \* #heading and the needles: [text, needle]
    gpsOnline,       \* #gps-status: TRUE for 'GPS', FALSE for 'GPS?'
    called,          \* the handler that ran last
    args,            \* what the user handed to it: a list index, form fields
    toasted,         \* the toast the last button handler raised, or NoToast
    now,             \* the value Date.now() returns
    hdg,             \* const hdg of the last onPosition call (the derived course)
    alert,           \* the proximity toast raised by the last onPosition call
    fixCount,        \* number of onPosition calls so far
    speedPushed,     \* every value pushed to speedHistory so far, in order
    altPushed,       \* every value pushed to altHistory so far, in order
    importCount,     \* number of files imported so far
    steps,           \* number of handler calls so far
    utmIn,           \* SpecUtm: the <<lat, lon>> handed to toUtm (degrees)
    utmOut,          \* SpecUtm: the [zone, band] toUtm returned, or NoUtm
    relIn,           \* SpecRel: <<bearing, headingDeg>> of setNavArrow
    relOut           \* SpecRel: the rel computed from them, or Null

vars == <<lastPosition, trackCoords, waypoints, settings, speedHistory,
          altHistory, trackingEnabled, averaging, loggingCsv, navTarget,
          navLine, navOverlay, navArrow, compass, gpsOnline, called, args, toasted,
          now, hdg, alert, fixCount, speedPushed, altPushed, importCount,
          steps, utmIn, utmOut, relIn, relOut>>

appVars == <<lastPosition, trackCoords, waypoints, settings, speedHistory,
             altHistory, trackingEnabled, averaging, loggingCsv, navTarget,
             navLine, navOverlay, navArrow, compass, gpsOnline, called, args, toasted,
             now, hdg, alert, fixCount, speedPushed, altPushed, importCount,
             steps>>

\* the navigation target and what the page shows of it and of the device
uiVars == <<navTarget, navLine, navOverlay, navArrow, compass, gpsOnline>>

utmVars == <<utmIn, utmOut>>

relVars == <<relIn, relOut>>

-----------------------------------------------------------------------------
(* JavaScript values *)

Null == -9999
NaN == -9998
Infinity == 999999999

\* Number.isFinite(x), for the values a parsed attribute can take
IsFinite(x) == x # Null /\ x # NaN

\* a % n of JavaScript for n > 0: the remainder has the sign of a
JsRem(a, n) == IF a >= 0 THEN a % n ELSE -((-a) % n)

-----------------------------------------------------------------------------
(* Bounds of the model *)

MaxFixes == 2
MaxWaypoints == 2
MaxClock == 1
MaxImports == 1
MaxSteps == 3
MaxAvgSteps == 4
MaxWpSteps == 3
MaxLogSteps == 4
MaxHistFixes == 62

-----------------------------------------------------------------------------
(* Program constants *)

HIST_LIMIT == 60

\* let settings = { maxAccM: 20, alertRadiusM: 30 }
DefaultSettings == [maxAccM |-> 20, alertRadiusM |-> 30]

-----------------------------------------------------------------------------
(* Inputs.  A coordinate is a whole number of sixtieths of a metre, so that *)
(* the mean of up to six samples is again a whole number.                   *)

M(metres) == metres * 60

P00 == <<M(0), M(0)>>
P30N == <<M(30), M(0)>>
P31E == <<M(0), M(31)>>

Points == {P00, P30N, P31E}

\* <<altitude, accuracy, speed, heading>> of a fix: a bare fix, a complete
\* fix, and a complete fix of poor accuracy whose heading is NaN
Profiles == {<<Null, Null, Null, Null>>, <<7, 10, 5, 90>>, <<7, 25, 5, NaN>>}

\* pos.coords of a GeolocationPosition
MkFix(p, alt, acc, speed, heading) ==
    [latitude |-> p[1], longitude |-> p[2], altitude |-> alt,
     accuracy |-> acc, speed |-> speed, heading |-> heading]

Fixes == { MkFix(p, f[1], f[2], f[3], f[4]) : p \in Points, f \in Profiles }

NoFix ==
    [latitude |-> Null, longitude |-> Null, altitude |-> Null,
     accuracy |-> Null, speed |-> Null, heading |-> Null]

\* DeviceOrientationEvent: an absolute one, an iOS one, one with no reading
\* and an absolute one whose alpha is NaN
OrientationEvents ==
    {[absolute |-> TRUE, alpha |-> 90, webkitCompassHeading |-> Null],
     [absolute |-> FALSE, alpha |-> 90, webkitCompassHeading |-> 270],
     [absolute |-> FALSE, alpha |-> Null, webkitCompassHeading |-> Null],
     [absolute |-> TRUE, alpha |-> NaN, webkitCompassHeading |-> Null]}

\* what the settings dialog's two sliders can be set to
MaxAccChoices == {5, 20}
AlertRadiusChoices == {30, 31}

\* what Math.random().toString(36).slice(2,6) can return
RandSuffixes == {"a", "b"}

\* What the parser finds in an imported file, before the Number.isFinite
\* filter: a point whose lat attribute does not parse, a list of wpt / Point
\* elements, the trkpt list of a GPX file and the LineString list of a KML
\* file.
BadPoint == <<NaN, M(0)>>
ParsedPointLists == {<<>>, <<P00, BadPoint>>}
ParsedTracks == {<<>>, <<BadPoint>>, <<P30N, BadPoint, P31E>>}
ParsedLineLists == {<<>>, <<<<P30N, P31E>>, <<BadPoint>>>>, <<<<P00>>, <<P31E>>>>}

-----------------------------------------------------------------------------
(* turf.distance and turf.bearing at the scale of the model *)

\* The square of turf.distance(p, q, {units: 'meters'}), in squared
\* coordinate units.  Distances are only ever compared, with each other and
\* with the alert radius, and squaring keeps every such comparison.
TurfDistance2(p, q) ==
    (q[1] - p[1]) * (q[1] - p[1]) + (q[2] - p[2]) * (q[2] - p[2])

\* 100000 tan((k - 1/2) degrees) for k = 1..45, to the nearest whole number
TanTable ==
    <<873, 2619, 4366, 6116, 7870, 9629, 11394, 13165, 14945, 16734, 18534,
      20345, 22169, 24008, 25862, 27732, 29621, 31530, 33460, 35412, 37388,
      39391, 41421, 43481, 45573, 47698, 49858, 52057, 54296, 56577, 58905,
      61280, 63707, 66189, 68728, 71329, 73996, 76733, 79544, 82434, 85408,
      88473, 91633, 94896, 98270>>

\* atan(b / a) to the nearest whole degree, for 0 <= b <= a and 0 < a
AtanDegrees(b, a) ==
    Cardinality({ k \in 1..45 : b * 100000 >= TanTable[k] * a })

Abs(x) == IF x >= 0 THEN x ELSE -x

\* the planar azimuth of the offset (dn north, de east), not both 0: degrees
\* east of north in [-180, 180], to the nearest whole degree
Azimuth(dn, de) ==
    LET a == Abs(dn)
        b == Abs(de)
        phi == IF b <= a THEN AtanDegrees(b, a) ELSE 90 - AtanDegrees(a, b)
    IN  CASE dn >= 0 /\ de >= 0 -> phi
          [] dn < 0 /\ de >= 0 -> 180 - phi
          [] dn >= 0 /\ de < 0 -> -phi
          [] dn < 0 /\ de < 0 -> phi - 180

\* turf.bearing(p, q): degrees east of north in [-180, 180], to the nearest
\* whole degree; turf returns 0 for two equal points.
TurfBearing(p, q) ==
    LET dn == q[1] - p[1]
        de == q[2] - p[2]
    IN  CASE de = 0 /\ dn >= 0 -> 0
          [] de = 0 /\ dn < 0 -> 180
          [] dn = 0 /\ de > 0 -> 90
          [] dn = 0 /\ de < 0 -> -90
          [] dn = -M(30) /\ de = M(31) -> 134
          [] dn = M(30) /\ de = -M(31) -> -46
          [] OTHER -> Azimuth(dn, de)

-----------------------------------------------------------------------------
(* UTM helpers; latitude and longitude in whole degrees *)

\* function getUtmZone(longitude)
getUtmZone(longitude) == ((longitude + 180) \div 6) + 1

\* const bands = "CDEFGHJKLMNPQRSTUVWX"
Bands ==
    <<"C", "D", "E", "F", "G", "H", "J", "K", "L", "M",
      "N", "P", "Q", "R", "S", "T", "U", "V", "W", "X">>

Max(a, b) == IF a >= b THEN a ELSE b
Min(a, b) == IF a <= b THEN a ELSE b

\* latToBand with the index clamped one letter short of the last
latToBandShort(lat) ==
    LET index == (lat + 80) \div 8
    IN  Bands[Max(0, Min(Len(Bands) - 2, index)) + 1]

\* function latToBand(lat); a JavaScript string is indexed from 0
latToBand(lat) ==
    LET index == (lat + 80) \div 8
    IN  Bands[Max(0, Min(Len(Bands) - 1, index)) + 1]

\* IsNorthern with the equator left to the south: latitude > 0
IsNorthernStrict(latitude) == latitude > 0

\* const isNorthern = latitude >= 0, of getUtmProj
IsNorthern(latitude) == latitude >= 0

\* the capital letters in the order of their char codes, by which JavaScript
\* compares one-letter strings
Alphabet ==
    <<"A", "B", "C", "D", "E", "F", "G", "H", "I", "J", "K", "L", "M",
      "N", "O", "P", "Q", "R", "S", "T", "U", "V", "W", "X", "Y", "Z">>

LetterRank(letter) == CHOOSE k \in 1..Len(Alphabet) : Alphabet[k] = letter

\* function toUtm(lat, lon), without the easting and northing proj4 computes
toUtm(lat, lon) ==
    [zone |-> getUtmZone(lon), band |-> latToBand(lat),
     northern |-> IsNorthern(lat)]

NoUtm == [zone |-> Null, band |-> "", northern |-> FALSE]

-----------------------------------------------------------------------------
(* onPosition and its helpers *)

\* heading != null && !Number.isNaN(heading)
HasHeading(heading) == heading # Null /\ heading # NaN

\* function computeCourseFromTrack(lat, lon), reading trackCoords
computeCourseFromTrack(track, lat, lon) ==
    IF Len(track) < 1
    THEN Null
    ELSE (TurfBearing(track[Len(track)], <<lat, lon>>) + 360) % 360

\* TrailUpdate dropping a point equal to the last one of the track
TrailUpdateDedup(track, lat, lon) ==
    IF Len(track) > 0 /\ track[Len(track)] = <<lat, lon>>
    THEN track
    ELSE Append(track, <<lat, lon>>)

\* the trail update of onPosition: trackCoords.push([latitude, longitude])
TrailUpdate(track, lat, lon) == Append(track, <<lat, lon>>)

\* const speedKmh = speed != null ? (speed * 3.6) : null
SpeedKmh(speed) == IF speed # Null THEN (speed * 36) \div 10 ELSE Null

\* HistPush evicting one push too early: h.length >= HIST_LIMIT
HistPushEarly(h, v) ==
    LET pushed == Append(h, v)
    IN  IF Len(pushed) >= HIST_LIMIT THEN Tail(pushed) ELSE pushed

\* h.push(v); if (h.length > HIST_LIMIT) h.shift();
HistPush(h, v) ==
    LET pushed == Append(h, v)
    IN  IF Len(pushed) > HIST_LIMIT THEN Tail(pushed) ELSE pushed

\* if (v != null) { push, shift }
HistUpdate(h, v) == IF v # Null THEN HistPush(h, v) ELSE h

\* PassesAccuracyFilter with the early return left out
PassesAccuracyFilterAlways(accuracy, maxAccM) == TRUE

\* PassesAccuracyFilter turning away a fix of unknown accuracy as well
PassesAccuracyFilterKnownOnly(accuracy, maxAccM) ==
    accuracy # Null /\ accuracy <= maxAccM

\* the accuracy filter of onPosition, negated: the fix goes on to the alert,
\* overlay, averaging and logging steps
PassesAccuracyFilter(accuracy, maxAccM) ==
    ~(accuracy # Null /\ accuracy > maxAccM)

NoAlert == [id |-> <<"", Null, "">>, d2 |-> Null]

\* NearestScan taking the later waypoint on a tie: d <= nearestD
RECURSIVE NearestScanLast(_, _, _, _, _)
NearestScanLast(wps, pos, i, nearest, nearestD2) ==
    IF i > Len(wps)
    THEN <<nearest, nearestD2>>
    ELSE LET d2 == TurfDistance2(pos, <<wps[i].lat, wps[i].lon>>)
         IN  IF d2 <= nearestD2
             THEN NearestScanLast(wps, pos, i + 1, i, d2)
             ELSE NearestScanLast(wps, pos, i + 1, nearest, nearestD2)

\* the loop of checkProximityAlerts from waypoint i on: the index of nearest
\* (0 for null) and nearestD squared
RECURSIVE NearestScan(_, _, _, _, _)
NearestScan(wps, pos, i, nearest, nearestD2) ==
    IF i > Len(wps)
    THEN <<nearest, nearestD2>>
    ELSE LET d2 == TurfDistance2(pos, <<wps[i].lat, wps[i].lon>>)
         IN  IF d2 < nearestD2
             THEN NearestScan(wps, pos, i + 1, i, d2)
             ELSE NearestScan(wps, pos, i + 1, nearest, nearestD2)

\* WithinAlertRadius with the boundary left out: nearestD < alertRadiusM
WithinAlertRadiusStrict(d2, alertRadiusM) ==
    d2 < M(alertRadiusM) * M(alertRadiusM)

\* nearestD <= settings.alertRadiusM
WithinAlertRadius(d2, alertRadiusM) == d2 <= M(alertRadiusM) * M(alertRadiusM)

\* function checkProximityAlerts(lat, lon): the toast it raises, or NoAlert
checkProximityAlerts(wps, lat, lon, alertRadiusM) ==
    IF Len(wps) = 0
    THEN NoAlert
    ELSE LET r == NearestScan(wps, <<lat, lon>>, 1, 0, Infinity)
         IN  IF r[1] # 0 /\ WithinAlertRadius(r[2], alertRadiusM)
             THEN [id |-> wps[r[1]].id, d2 |-> r[2]]
             ELSE NoAlert

\* AveragingIngest without the test of averaging.active
AveragingIngestAlways(avg, fix) ==
    [avg EXCEPT !.samples =
        Append(@, [lat |-> fix.latitude, lon |-> fix.longitude,
                   acc |-> fix.accuracy])]

\* the averaging step of onPosition
AveragingIngest(avg, fix) ==
    IF avg.active
    THEN [avg EXCEPT !.samples =
             Append(@, [lat |-> fix.latitude, lon |-> fix.longitude,
                        acc |-> fix.accuracy])]
    ELSE avg

\* let navTarget = null, let navLine = null, and the page before any handler
\* ran: overlay and arrow hidden, no heading shown, needles at 0
NoTarget == [lat |-> Null, lon |-> Null, label |-> <<>>]
NoLine == <<>>
OverlayHidden == <<>>
ArrowHidden == [rel |-> Null, bearing |-> Null, d2 |-> Null]
NoCompass == [text |-> Null, needle |-> 0]
NoToast == <<"", "">>

\* what a handler leaves in called, args and toasted
CalledWith(handler, arguments, message) ==
    called' = handler /\ args' = arguments /\ toasted' = message

Called(handler, message) == CalledWith(handler, <<>>, message)

\* function setHeading(deg): the heading text and the needles' rotation
setHeading(shown, deg) ==
    IF deg = Null
    THEN [shown EXCEPT !.text = Null]
    ELSE [text |-> deg, needle |-> deg]

\* RelativeBearing without the + 360 before the remainder
RelativeBearingNoWrap(bearing, headingDeg) == JsRem(bearing - headingDeg, 360)

\* const rel = ((bearing - headingDeg) + 360) % 360
RelativeBearing(bearing, headingDeg) ==
    JsRem((bearing - headingDeg) + 360, 360)

\* function setNavArrow(headingDeg), with lastPosition = fix
setNavArrow(target, fix, headingDeg) ==
    IF target = NoTarget \/ headingDeg = Null
    THEN ArrowHidden
    ELSE LET from == <<fix.latitude, fix.longitude>>
             to == <<target.lat, target.lon>>
             bearing == JsRem(TurfBearing(from, to) + 360, 360)
         IN  [rel |-> RelativeBearing(bearing, headingDeg),
              bearing |-> bearing, d2 |-> TurfDistance2(from, to)]

\* function updateNavigationOverlay(lat, lon): the overlay and the nav line
\* it leaves
updateNavigationOverlay(target, lat, lon) ==
    IF target = NoTarget
    THEN [overlay |-> OverlayHidden, line |-> NoLine]
    ELSE LET from == <<lat, lon>>
             to == <<target.lat, target.lon>>
             d2 == TurfDistance2(from, to)
             b == JsRem(TurfBearing(from, to) + 360, 360)
         IN  [overlay |-> <<"nav", target.label, d2, b>>,
              line |-> <<from, to>>]

\* the '' a CSV field holds for null: `${altitude ?? ''}`
EmptyField == -9997

\* `${v ?? ''}`
CsvField(v) == IF v = Null THEN EmptyField ELSE v

\* 'time,lat,lon,alt,acc,speed'
CsvHeader == <<"time", "lat", "lon", "alt", "acc", "speed">>

\* the row onPosition logs; ms is pos.timestamp, the clock's reading when the
\* fix is delivered
CsvRow(fix, speedKmh, ms) ==
    <<ms, fix.latitude, fix.longitude, CsvField(fix.altitude),
      CsvField(fix.accuracy), CsvField(speedKmh)>>

\* the CSV logging step of onPosition
CsvLog(log, fix, speedKmh, ms) ==
    IF log.active
    THEN [log EXCEPT !.rows = Append(@, CsvRow(fix, speedKmh, ms))]
    ELSE log

\* function onPosition(pos)
onPosition(fix) ==
    LET lat == fix.latitude
        lon == fix.longitude
        speedKmh == SpeedKmh(fix.speed)
        passes == PassesAccuracyFilter(fix.accuracy, settings.maxAccM)
        course == IF HasHeading(fix.heading)
                  THEN fix.heading
                  ELSE computeCourseFromTrack(trackCoords, lat, lon)
        nav == updateNavigationOverlay(navTarget, lat, lon)
    IN  /\ lastPosition' = fix
        /\ hdg' = course
        /\ compass' = setHeading(compass, course)
        /\ navArrow' = setNavArrow(navTarget, fix, course)
        /\ gpsOnline' = TRUE
        /\ navOverlay' = IF passes THEN nav.overlay ELSE navOverlay
        /\ navLine' = IF passes THEN nav.line ELSE navLine
        /\ loggingCsv' = IF passes
                         THEN CsvLog(loggingCsv, fix, speedKmh, now)
                         ELSE loggingCsv
        /\ CalledWith("onPosition", <<fix>>, NoToast)
        /\ trackCoords' = TrailUpdate(trackCoords, lat, lon)
        /\ speedHistory' = HistUpdate(speedHistory, speedKmh)
        /\ altHistory' = HistUpdate(altHistory, fix.altitude)
        /\ speedPushed' = IF speedKmh # Null
                          THEN Append(speedPushed, speedKmh) ELSE speedPushed
        /\ altPushed' = IF fix.altitude # Null
                        THEN Append(altPushed, fix.altitude) ELSE altPushed
        /\ alert' = IF passes
                    THEN checkProximityAlerts(waypoints, lat, lon,
                                              settings.alertRadiusM)
                    ELSE NoAlert
        /\ averaging' = IF passes THEN AveragingIngest(averaging, fix)
                        ELSE averaging
        /\ fixCount' = fixCount + 1
        /\ UNCHANGED <<waypoints, settings, trackingEnabled, navTarget, now,
                       importCount>>

\* onPositionError forgetting the last fix as well
PositionAfterErrorForgotten(pos) == NoFix

\* lastPosition after onPositionError: the handler does not assign it
PositionAfterError(pos) == pos

\* function onPositionError(err)
onPositionError ==
    /\ gpsOnline' = FALSE
    /\ lastPosition' = PositionAfterError(lastPosition)
    /\ Called("onPositionError", NoToast)
    /\ UNCHANGED loggingCsv
    /\ UNCHANGED <<trackCoords, waypoints, settings,
                   speedHistory, altHistory, trackingEnabled, averaging,
                   navTarget, navLine, navOverlay, navArrow, compass, now,
                   hdg, alert, fixCount, speedPushed, altPushed, importCount>>

\* let deg of onOrientation: 360 - alpha, webkitCompassHeading, or null
OrientationDeg(ev) ==
    IF ev.absolute /\ ev.alpha # Null
    THEN IF ev.alpha = NaN THEN NaN ELSE 360 - ev.alpha
    ELSE IF ev.webkitCompassHeading # Null
         THEN ev.webkitCompassHeading
         ELSE Null

\* function onOrientation(ev)
onOrientation(ev) ==
    LET deg == OrientationDeg(ev)
    IN  /\ compass' = IF deg # Null /\ deg # NaN
                      THEN setHeading(compass, JsRem(deg + 360, 360))
                      ELSE compass
        /\ Called("onOrientation", NoToast)
        /\ UNCHANGED loggingCsv
        /\ UNCHANGED <<lastPosition, trackCoords, waypoints, settings,
                       speedHistory, altHistory, trackingEnabled, averaging,
                       navTarget, navLine, navOverlay, navArrow, gpsOnline,
                       now, hdg, alert, fixCount, speedPushed, altPushed,
                       importCount>>

-----------------------------------------------------------------------------
(* Waypoints *)

\* Date.now().toString(), `AVG-${Date.now()}` and Date.now().toString() +
\* Math.random().toString(36).slice(2,6): an id is <<prefix, Date.now(),
\* suffix>>.  Date.now() has thirteen digits, so the three parts determine
\* the string and the string determines the three parts.
ManualId(ms) == <<"", ms, "">>
RawId(ms, suffix) == <<"", ms, suffix>>
AveragedId(ms) == <<"AVG-", ms, "">>

\* function addWaypointFromCurrent(), after its guard
addWaypointFromCurrent ==
    /\ lastPosition # NoFix
    /\ Len(waypoints) < MaxWaypoints
    /\ waypoints' = Append(waypoints,
           [id |-> ManualId(now), lat |-> lastPosition.latitude,
            lon |-> lastPosition.longitude,
            altitudeM |-> lastPosition.altitude,
            accuracyM |-> lastPosition.accuracy])
    /\ Called("addWaypointFromCurrent", NoToast)
    /\ UNCHANGED uiVars
    /\ UNCHANGED loggingCsv
    /\ UNCHANGED <<lastPosition, trackCoords, settings, speedHistory,
                   altHistory, trackingEnabled, averaging, now, hdg, alert,
                   fixCount, speedPushed, altPushed, importCount>>

\* waypoints.filter(x => x.id !== id)
RECURSIVE WithoutId(_, _)
WithoutId(wps, id) ==
    IF wps = <<>>
    THEN <<>>
    ELSE IF Head(wps).id # id
         THEN <<Head(wps)>> \o WithoutId(Tail(wps), id)
         ELSE WithoutId(Tail(wps), id)

\* del.onclick clearing a target that was set from the deleted waypoint
TargetAfterDeleteCleared(target, id) ==
    IF target # NoTarget /\ target.label = id THEN NoTarget ELSE target

\* del.onclick of renderWaypointList: navTarget is not assigned
TargetAfterDelete(target, id) == target

\* del.onclick of renderWaypointList, for the list entry of waypoint i
deleteWaypoint(i) ==
    /\ waypoints' = WithoutId(waypoints, waypoints[i].id)
    /\ navTarget' = TargetAfterDelete(navTarget, waypoints[i].id)
    /\ CalledWith("deleteWaypoint", <<waypoints[i].id>>, NoToast)
    /\ UNCHANGED <<navLine, navOverlay, navArrow, compass, gpsOnline>>
    /\ UNCHANGED loggingCsv
    /\ UNCHANGED <<lastPosition, trackCoords, settings, speedHistory,
                   altHistory, trackingEnabled, averaging, now, hdg, alert,
                   fixCount, speedPushed, altPushed, importCount>>

\* function addWaypointRaw(lat, lon, alt): the collection after the push
addWaypointRaw(wps, lat, lon, alt, ms, suffix) ==
    Append(wps, [id |-> RawId(ms, suffix), lat |-> lat, lon |-> lon,
                 altitudeM |-> alt, accuracyM |-> Null])

\* Number.isFinite(lat) && Number.isFinite(lon)
FinitePoint(pt) == IsFinite(pt[1]) /\ IsFinite(pt[2])

\* the parsed points addWaypointRaw is called for, each drawing a suffix
FiniteIndices(pts) == { i \in 1..Len(pts) : FinitePoint(pts[i]) }

\* the wpt / Point loop of importGPX and importKML from parsed point i on;
\* suffixes[i] is what Math.random() gives for point i
RECURSIVE AddParsedPoints(_, _, _, _, _)
AddParsedPoints(wps, pts, suffixes, ms, i) ==
    IF i > Len(pts)
    THEN wps
    ELSE AddParsedPoints(
             IF FinitePoint(pts[i])
             THEN addWaypointRaw(wps, pts[i][1], pts[i][2], Null, ms,
                                 suffixes[i])
             ELSE wps,
             pts, suffixes, ms, i + 1)

\* .filter(p => Number.isFinite(p[0]) && Number.isFinite(p[1]))
RECURSIVE FilterFinite(_)
FilterFinite(pts) ==
    IF pts = <<>>
    THEN <<>>
    ELSE IF FinitePoint(Head(pts))
         THEN <<Head(pts)>> \o FilterFinite(Tail(pts))
         ELSE FilterFinite(Tail(pts))

\* if (trkpts.length) { trackCoords = trkpts; }
ReplaceTrack(track, parsed) ==
    LET pts == FilterFinite(parsed)
    IN  IF Len(pts) > 0 THEN pts ELSE track

\* the LineString loop of importKML from line i on
RECURSIVE ReplaceTrackEach(_, _, _)
ReplaceTrackEach(track, lines, i) ==
    IF i > Len(lines)
    THEN track
    ELSE ReplaceTrackEach(ReplaceTrack(track, lines[i]), lines, i + 1)

\* function importGPX(xml): wpts and trkpts are what the parser found
importGPX(wpts, trkpts, suffixes) ==
    /\ importCount < MaxImports
    /\ Len(waypoints) + Len(FilterFinite(wpts)) <= MaxWaypoints
    /\ waypoints' = AddParsedPoints(waypoints, wpts, suffixes, now, 1)
    /\ trackCoords' = ReplaceTrack(trackCoords, trkpts)
    /\ importCount' = importCount + 1
    /\ Called("importGPX", NoToast)
    /\ UNCHANGED uiVars
    /\ UNCHANGED loggingCsv
    /\ UNCHANGED <<lastPosition, settings, speedHistory, altHistory,
                   trackingEnabled, averaging, now, hdg, alert, fixCount,
                   speedPushed, altPushed>>

\* function importKML(xml): points and lines are what the parser found
importKML(points, lines, suffixes) ==
    /\ importCount < MaxImports
    /\ Len(waypoints) + Len(FilterFinite(points)) <= MaxWaypoints
    /\ waypoints' = AddParsedPoints(waypoints, points, suffixes, now, 1)
    /\ trackCoords' = ReplaceTrackEach(trackCoords, lines, 1)
    /\ importCount' = importCount + 1
    /\ Called("importKML", NoToast)
    /\ UNCHANGED uiVars
    /\ UNCHANGED loggingCsv
    /\ UNCHANGED <<lastPosition, settings, speedHistory, altHistory,
                   trackingEnabled, averaging, now, hdg, alert, fixCount,
                   speedPushed, altPushed>>

-----------------------------------------------------------------------------
(* Averaging *)

RECURSIVE SumLat(_)
SumLat(samples) ==
    IF samples = <<>> THEN 0 ELSE Head(samples).lat + SumLat(Tail(samples))

RECURSIVE SumLon(_)
SumLon(samples) ==
    IF samples = <<>> THEN 0 ELSE Head(samples).lon + SumLon(Tail(samples))

\* sum / n of JavaScript; 0 / 0 is NaN
Mean(sum, n) == IF n = 0 THEN NaN ELSE sum \div n

\* resetAveraging keeping the samples
ResetSessionKeeping(avg) == [avg EXCEPT !.active = FALSE]

\* averaging = { active: false, samples: [] }
ResetSession(avg) == [active |-> FALSE, samples |-> <<>>]

\* averaging.active = true; averaging.samples = []
StartedSession(avg) == [active |-> TRUE, samples |-> <<>>]

\* function resetAveraging()
resetAveraging ==
    /\ averaging' = ResetSession(averaging)
    /\ Called("resetAveraging", NoToast)
    /\ UNCHANGED uiVars
    /\ UNCHANGED loggingCsv
    /\ UNCHANGED <<lastPosition, trackCoords, waypoints, settings,
                   speedHistory, altHistory, trackingEnabled, now, hdg,
                   alert, fixCount, speedPushed, altPushed, importCount>>

\* function startAveraging()
startAveraging ==
    /\ averaging' = StartedSession(averaging)
    /\ Called("startAveraging", NoToast)
    /\ UNCHANGED uiVars
    /\ UNCHANGED loggingCsv
    /\ UNCHANGED <<lastPosition, trackCoords, waypoints, settings,
                   speedHistory, altHistory, trackingEnabled, now, hdg,
                   alert, fixCount, speedPushed, altPushed, importCount>>

\* function stopAveraging()
stopAveraging ==
    /\ averaging' = [averaging EXCEPT !.active = FALSE]
    /\ Called("stopAveraging", NoToast)
    /\ UNCHANGED uiVars
    /\ UNCHANGED loggingCsv
    /\ UNCHANGED <<lastPosition, trackCoords, waypoints, settings,
                   speedHistory, altHistory, trackingEnabled, now, hdg,
                   alert, fixCount, speedPushed, altPushed, importCount>>

\* AveragedWaypoint with the mean latitude in both coordinates
AveragedWaypointLatOnly(samples, ms) ==
    [id |-> AveragedId(ms),
     lat |-> Mean(SumLat(samples), Len(samples)),
     lon |-> Mean(SumLat(samples), Len(samples)),
     altitudeM |-> Null, accuracyM |-> Null]

\* the waypoint saveAveragedPoint builds
AveragedWaypoint(samples, ms) ==
    [id |-> AveragedId(ms),
     lat |-> Mean(SumLat(samples), Len(samples)),
     lon |-> Mean(SumLon(samples), Len(samples)),
     altitudeM |-> Null, accuracyM |-> Null]

\* the averaging session saveAveragedPoint leaves behind
SessionAfterSave(avg) == avg

\* saveAveragedPoint without the check for an empty sample list: the guard
\* of the save is always true
HasSamplesAlways(samples) == TRUE

\* !(!averaging.samples.length)
HasSamples(samples) == Len(samples) > 0

\* the collection saveAveragedPoint leaves: one waypoint more
SavedWaypoints(wps, samples, ms) == Append(wps, AveragedWaypoint(samples, ms))

\* function saveAveragedPoint()
saveAveragedPoint ==
    /\ IF HasSamples(averaging.samples)
       THEN /\ Len(waypoints) < MaxWaypoints
            /\ waypoints' = SavedWaypoints(waypoints, averaging.samples, now)
            /\ averaging' = SessionAfterSave(averaging)
            /\ Called("saveAveragedPoint", <<"point saved", "success">>)
       ELSE /\ UNCHANGED <<waypoints, averaging>>
            /\ Called("saveAveragedPoint", <<"no samples", "error">>)
    /\ UNCHANGED uiVars
    /\ UNCHANGED loggingCsv
    /\ UNCHANGED <<lastPosition, trackCoords, settings, speedHistory,
                   altHistory, trackingEnabled, now, hdg, alert, fixCount,
                   speedPushed, altPushed, importCount>>

-----------------------------------------------------------------------------
(* Navigation *)

\* waypoints.find(x => x.id === id) from waypoint i on: its index, 0 if none
RECURSIVE FindWaypoint(_, _, _)
FindWaypoint(wps, id, i) ==
    IF i > Len(wps)
    THEN 0
    ELSE IF wps[i].id = id THEN i ELSE FindWaypoint(wps, id, i + 1)

\* setNavTarget keeping the target it had
KeepNavTarget(old, new) == old

\* setNavTarget keeping the target it had when the new one is none
ReplaceNavTargetUnlessNone(old, new) == IF new = NoTarget THEN old ELSE new

\* setNavTarget, typeof target !== 'string': navTarget = target
ReplaceNavTarget(old, new) == new

\* setNavTarget, typeof target === 'string': the target for waypoint id
TargetOfId(wps, id) ==
    LET i == FindWaypoint(wps, id, 1)
    IN  IF i # 0
        THEN [lat |-> wps[i].lat, lon |-> wps[i].lon, label |-> wps[i].id]
        ELSE NoTarget

\* function setNavTarget(target), target a target record or NoTarget
setNavTarget(target) ==
    /\ navTarget' = ReplaceNavTarget(navTarget, target)
    /\ navLine' = NoLine

\* nav.onclick of renderWaypointList, for the list entry of waypoint i
navigateTo(i) ==
    /\ setNavTarget(TargetOfId(waypoints, waypoints[i].id))
    /\ CalledWith("navigateTo", <<i>>, <<"navigation on", "success">>)
    /\ UNCHANGED loggingCsv
    /\ UNCHANGED <<lastPosition, trackCoords, waypoints, settings,
                   speedHistory, altHistory, trackingEnabled, averaging,
                   navOverlay, navArrow, compass, gpsOnline, now, hdg, alert,
                   fixCount, speedPushed, altPushed, importCount>>

\* btnClearNav.onclick
clearNav ==
    /\ setNavTarget(NoTarget)
    /\ Called("clearNav", <<"navigation cancelled", "success">>)
    /\ UNCHANGED loggingCsv
    /\ UNCHANGED <<lastPosition, trackCoords, waypoints, settings,
                   speedHistory, altHistory, trackingEnabled, averaging,
                   navOverlay, navArrow, compass, gpsOnline, now, hdg, alert,
                   fixCount, speedPushed, altPushed, importCount>>

\* <<zone, band, easting, northing>> as the four fields of the go-to-UTM
\* dialog parse: parseInt and parseFloat give NaN for a field that is empty
\* or not a number.  Each of the three numbers is missing in turn, with and
\* without a band; then all three are there, with no band, a southern band
\* and a northern band.
GotoInputs ==
    {<<NaN, "", M(31), M(30)>>, <<31, "M", NaN, M(30)>>,
     <<31, "", M(31), NaN>>, <<NaN, "N", NaN, NaN>>,
     <<31, "", M(31), M(30)>>, <<31, "M", M(31), M(30)>>,
     <<31, "N", M(31), M(30)>>}

\* !Number.isFinite(zone) || !Number.isFinite(easting) ||
\* !Number.isFinite(northing), negated, with the band taken into account
GotoInputValidStrict(zone, band, easting, northing) ==
    IsFinite(zone) /\ IsFinite(easting) /\ IsFinite(northing) /\ band # ""

\* !Number.isFinite(zone) || !Number.isFinite(easting) ||
\* !Number.isFinite(northing), negated
GotoInputValid(zone, band, easting, northing) ==
    IsFinite(zone) /\ IsFinite(easting) /\ IsFinite(northing)

\* const isNorthern = band ? (band >= 'N') : true, band a capital letter or ''
GotoIsNorthern(band) ==
    IF band # "" THEN LetterRank(band) >= LetterRank("N") ELSE TRUE

\* inv.inverse([easting, northing]) as <<lat, lon>> on the plane of the
\* model, whose origin lies on the central meridian of the zone: a southern
\* northing is counted from a false origin 60 m south of the equator
Proj4Inverse(zone, isNorthern, easting, northing) ==
    <<IF isNorthern THEN northing ELSE northing - M(60), easting>>

\* const temp = { lat, lon, label: `UTM ${zone}${band} ${easting} ${northing}` }
GotoTarget(zone, band, easting, northing) ==
    LET ll == Proj4Inverse(zone, GotoIsNorthern(band), easting, northing)
    IN  [lat |-> ll[1], lon |-> ll[2],
         label |-> <<"UTM", zone, band, easting, northing>>]

\* function onGotoUtmSubmit(), the four fields already parsed
onGotoUtmSubmit(zone, band, easting, northing) ==
    /\ IF GotoInputValid(zone, band, easting, northing)
       THEN /\ setNavTarget(GotoTarget(zone, band, easting, northing))
            /\ navOverlay' = <<"goto", zone, band, easting, northing>>
            /\ CalledWith("onGotoUtmSubmit",
                          <<zone, band, easting, northing>>, NoToast)
       ELSE /\ UNCHANGED <<navTarget, navLine, navOverlay>>
            /\ CalledWith("onGotoUtmSubmit",
                          <<zone, band, easting, northing>>,
                          <<"invalid input", "error">>)
    /\ UNCHANGED loggingCsv
    /\ UNCHANGED <<lastPosition, trackCoords, waypoints, settings,
                   speedHistory, altHistory, trackingEnabled, averaging,
                   navArrow, compass, gpsOnline, now, hdg, alert, fixCount,
                   speedPushed, altPushed, importCount>>

-----------------------------------------------------------------------------
(* Other handlers *)

\* btnTrack.onclick
toggleTrack ==
    /\ trackingEnabled' = ~trackingEnabled
    /\ Called("toggleTrack",
              IF trackingEnabled' THEN <<"tracking on", "success">>
              ELSE <<"tracking stopped", "success">>)
    /\ UNCHANGED uiVars
    /\ UNCHANGED loggingCsv
    /\ UNCHANGED <<lastPosition, trackCoords, waypoints, settings,
                   speedHistory, altHistory, averaging, now, hdg, alert,
                   fixCount, speedPushed, altPushed, importCount>>

\* btnLog.onclick
toggleCsvLog ==
    /\ loggingCsv' =
           IF loggingCsv.active
           THEN [loggingCsv EXCEPT !.active = FALSE]
           ELSE [active |-> TRUE, rows |-> <<CsvHeader>>]
    /\ Called("toggleCsvLog", NoToast)
    /\ UNCHANGED uiVars
    /\ UNCHANGED <<lastPosition, trackCoords, waypoints, settings,
                   speedHistory, altHistory, trackingEnabled, averaging, now,
                   hdg, alert, fixCount, speedPushed, altPushed, importCount>>

\* saveSettings.onclick: readSettingsUI()
saveSettings(maxAcc, radius) ==
    /\ settings' = [maxAccM |-> maxAcc, alertRadiusM |-> radius]
    /\ Called("saveSettings", <<"saved", "success">>)
    /\ UNCHANGED uiVars
    /\ UNCHANGED loggingCsv
    /\ UNCHANGED <<lastPosition, trackCoords, waypoints, speedHistory,
                   altHistory, trackingEnabled, averaging, now, hdg, alert,
                   fixCount, speedPushed, altPushed, importCount>>

\* the clock Date.now() reads moves on by a millisecond
Tick ==
    /\ now < MaxClock
    /\ now' = now + 1
    /\ Called("Tick", NoToast)
    /\ UNCHANGED uiVars
    /\ UNCHANGED loggingCsv
    /\ UNCHANGED <<lastPosition, trackCoords, waypoints, settings,
                   speedHistory, altHistory, trackingEnabled, averaging, hdg,
                   alert, fixCount, speedPushed, altPushed, importCount>>

-----------------------------------------------------------------------------
(* The application *)

\* the state when the page has loaded, wps being what loadWaypoints found
AppInitWith(wps) ==
    /\ lastPosition = NoFix
    /\ trackCoords = <<>>
    /\ waypoints = wps
    /\ settings = DefaultSettings
    /\ speedHistory = <<>>
    /\ altHistory = <<>>
    /\ trackingEnabled = TRUE
    /\ averaging = [active |-> FALSE, samples |-> <<>>]
    /\ loggingCsv = [active |-> FALSE, rows |-> <<>>]
    /\ navTarget = NoTarget
    /\ navLine = NoLine
    /\ navOverlay = OverlayHidden
    /\ navArrow = ArrowHidden
    /\ compass = NoCompass
    /\ gpsOnline = FALSE
    /\ called = ""
    /\ args = <<>>
    /\ toasted = NoToast
    /\ now = 0
    /\ hdg = Null
    /\ alert = NoAlert
    /\ fixCount = 0
    /\ speedPushed = <<>>
    /\ altPushed = <<>>
    /\ importCount = 0
    /\ steps = 0

AppInit == AppInitWith(<<>>)

Init ==
    /\ AppInit
    /\ utmIn = <<0, 0>>
    /\ utmOut = NoUtm
    /\ relIn = <<0, 0>>
    /\ relOut = Null

\* one more handler has run; the scratch variables of SpecUtm and SpecRel
\* are not the app's
Handled ==
    /\ steps < MaxSteps
    /\ steps' = steps + 1
    /\ UNCHANGED utmVars
    /\ UNCHANGED relVars

Next ==
    \/ \E fix \in Fixes : fixCount < MaxFixes /\ onPosition(fix) /\ Handled
    \/ onPositionError /\ Handled
    \/ \E ev \in OrientationEvents : onOrientation(ev) /\ Handled
    \/ addWaypointFromCurrent /\ Handled
    \/ \E i \in 1..Len(waypoints) : deleteWaypoint(i) /\ Handled
    \/ \E wpts \in ParsedPointLists, trkpts \in ParsedTracks :
         \E suffixes \in [FiniteIndices(wpts) -> RandSuffixes] :
            importGPX(wpts, trkpts, suffixes) /\ Handled
    \/ \E points \in ParsedPointLists, lines \in ParsedLineLists :
         \E suffixes \in [FiniteIndices(points) -> RandSuffixes] :
            importKML(points, lines, suffixes) /\ Handled
    \/ resetAveraging /\ Handled
    \/ startAveraging /\ Handled
    \/ stopAveraging /\ Handled
    \/ saveAveragedPoint /\ Handled
    \/ \E i \in 1..Len(waypoints) : navigateTo(i) /\ Handled
    \/ clearNav /\ Handled
    \/ \E in \in GotoInputs :
         onGotoUtmSubmit(in[1], in[2], in[3], in[4]) /\ Handled
    \/ toggleTrack /\ Handled
    \/ toggleCsvLog /\ Handled
    \/ \E a \in MaxAccChoices, r \in AlertRadiusChoices :
         saveSettings(a, r) /\ Handled
    \/ Tick /\ Handled

Spec == Init /\ [][Next]_vars

-----------------------------------------------------------------------------
(* The history buffers over a long run of fixes.  The k-th speed pushed is  *)
(* 18 k km/h and the k-th altitude pushed is k m, so that no two entries of *)
(* a buffer are equal; a fix may lack either.                               *)

HistFixes ==
    { MkFix(P00, alt, Null, speed, Null) :
        alt \in {Null, Len(altPushed) + 1},
        speed \in {Null, 5 * (Len(speedPushed) + 1)} }

NextHist ==
    \E fix \in HistFixes :
        /\ fixCount < MaxHistFixes
        /\ onPosition(fix)
        /\ steps' = steps + 1
        /\ UNCHANGED utmVars
        /\ UNCHANGED relVars

SpecHist == Init /\ [][NextHist]_vars

-----------------------------------------------------------------------------
(* toUtm over the whole GeoFix range *)

UtmLatitudes == -90..90
UtmLongitudes == -180..180

InitUtm ==
    /\ AppInit
    /\ utmIn \in UtmLatitudes \X UtmLongitudes
    /\ utmOut = NoUtm
    /\ relIn = <<0, 0>>
    /\ relOut = Null

toUtmCall ==
    /\ utmOut = NoUtm
    /\ utmOut' = toUtm(utmIn[1], utmIn[2])
    /\ UNCHANGED utmIn
    /\ UNCHANGED appVars
    /\ UNCHANGED relVars

NextUtm == toUtmCall

SpecUtm == InitUtm /\ [][NextUtm]_vars

-----------------------------------------------------------------------------
(* The averaging dialog: a session of fixes, orientation samples, position  *)
(* errors and the dialog's buttons, with a waypoint marked now and then     *)

HandledAvg ==
    /\ steps < MaxAvgSteps
    /\ steps' = steps + 1
    /\ UNCHANGED utmVars
    /\ UNCHANGED relVars

NextAvg ==
    \/ \E fix \in Fixes : fixCount < MaxFixes /\ onPosition(fix) /\ HandledAvg
    \/ onPositionError /\ HandledAvg
    \/ \E ev \in OrientationEvents : onOrientation(ev) /\ HandledAvg
    \/ addWaypointFromCurrent /\ HandledAvg
    \/ resetAveraging /\ HandledAvg
    \/ startAveraging /\ HandledAvg
    \/ stopAveraging /\ HandledAvg
    \/ saveAveragedPoint /\ HandledAvg
    \/ Tick /\ HandledAvg

SpecAvg == Init /\ [][NextAvg]_vars

-----------------------------------------------------------------------------
(* The functions that search the waypoint collection, checkProximityAlerts  *)
(* and setNavTarget with an id, over collections stored by earlier          *)
(* sessions: the page loads with waypoints imported at one and the same     *)
(* millisecond, some of them equally far from the fixes that follow         *)

P30E == <<M(0), M(30)>>

StoredPointLists ==
    {<<>>, <<P30N>>, <<P30N, P30E>>, <<P30E, P30N>>, <<P00, P00>>,
     <<P31E, P30N, P30E>>, <<P30N, P31E, P30E>>}

StoredSuffixes == <<"a", "b", "c">>

\* the collection an import of pts left in localStorage
StoredWaypoints(pts) == AddParsedPoints(<<>>, pts, StoredSuffixes, 0, 1)

\* the ids setNavTarget is called with: of the first and of the third stored
\* waypoint, and one no waypoint has
NavIds == {RawId(0, "a"), RawId(0, "c"), RawId(0, "z")}

\* setNavTarget(id), typeof id === 'string'
setNavTargetById(id) ==
    /\ setNavTarget(TargetOfId(waypoints, id))
    /\ CalledWith("setNavTarget", <<id>>, NoToast)
    /\ UNCHANGED loggingCsv
    /\ UNCHANGED <<lastPosition, trackCoords, waypoints, settings,
                   speedHistory, altHistory, trackingEnabled, averaging,
                   navOverlay, navArrow, compass, gpsOnline, now, hdg, alert,
                   fixCount, speedPushed, altPushed, importCount>>

InitWp ==
    /\ \E pts \in StoredPointLists : AppInitWith(StoredWaypoints(pts))
    /\ utmIn = <<0, 0>>
    /\ utmOut = NoUtm
    /\ relIn = <<0, 0>>
    /\ relOut = Null

HandledWp ==
    /\ steps < MaxWpSteps
    /\ steps' = steps + 1
    /\ UNCHANGED utmVars
    /\ UNCHANGED relVars

NextWp ==
    \/ \E fix \in Fixes : fixCount < MaxFixes /\ onPosition(fix) /\ HandledWp
    \/ \E id \in NavIds : setNavTargetById(id) /\ HandledWp
    \/ \E i \in 1..Len(waypoints) : deleteWaypoint(i) /\ HandledWp
    \/ clearNav /\ HandledWp

SpecWp == InitWp /\ [][NextWp]_vars

-----------------------------------------------------------------------------
(* The accuracy filter of onPosition against what the fix handler shows and *)
(* logs: fixes, the CSV log button, the go-to-UTM dialog and the settings   *)
(* dialog, four handler calls deep                                          *)

HandledLog ==
    /\ steps < MaxLogSteps
    /\ steps' = steps + 1
    /\ UNCHANGED utmVars
    /\ UNCHANGED relVars

NextLog ==
    \/ \E fix \in Fixes : fixCount < MaxFixes /\ onPosition(fix) /\ HandledLog
    \/ toggleCsvLog /\ HandledLog
    \/ \E in \in GotoInputs :
         onGotoUtmSubmit(in[1], in[2], in[3], in[4]) /\ HandledLog
    \/ \E a \in MaxAccChoices, r \in AlertRadiusChoices :
         saveSettings(a, r) /\ HandledLog

SpecLog == Init /\ [][NextLog]_vars

-----------------------------------------------------------------------------
(* The relative bearing of setNavArrow over every whole bearing and heading *)
(* of [0, 360)                                                              *)

RelBearings == 0..359
RelHeadings == 0..359

InitRel ==
    /\ AppInit
    /\ utmIn = <<0, 0>>
    /\ utmOut = NoUtm
    /\ relIn \in RelBearings \X RelHeadings
    /\ relOut = Null

RelativeBearingCall ==
    /\ relOut = Null
    /\ relOut' = RelativeBearing(relIn[1], relIn[2])
    /\ UNCHANGED relIn
    /\ UNCHANGED appVars
    /\ UNCHANGED utmVars

NextRel == RelativeBearingCall

SpecRel == InitRel /\ [][NextRel]_vars

-----------------------------------------------------------------------------
(* Claims.  A step with fixCount' # fixCount is a call of onPosition, and   *)
(* lastPosition' is then the fix it processed.                              *)

FixProcessed == fixCount' # fixCount
FixPoint(fix) == <<fix.latitude, fix.longitude>>

\* the last n entries of s
LastN(s, n) == IF Len(s) <= n THEN s ELSE SubSeq(s, Len(s) - n + 1, Len(s))

\* C1: a fix processed while tracking is disabled leaves the track
\* unchanged; a fix processed while it is enabled appends exactly its
\* (lat, lon) to the end of the track.
C1_TrackingFlagGatesTrack ==
    [][FixProcessed =>
         IF trackingEnabled
         THEN trackCoords' = Append(trackCoords, FixPoint(lastPosition'))
         ELSE trackCoords' = trackCoords]_vars

\* C2: while the averaging session is active every processed fix appends
\* exactly one sample (lat, lon, accuracy-or-null), whatever its accuracy;
\* while it is not active the sample list is unchanged.
C2_ActiveSessionSamplesEveryFix ==
    [][FixProcessed =>
         IF averaging.active
         THEN averaging'.samples =
                  Append(averaging.samples,
                         [lat |-> lastPosition'.latitude,
                          lon |-> lastPosition'.longitude,
                          acc |-> lastPosition'.accuracy])
         ELSE averaging'.samples = averaging.samples]_vars

\* a step that saved an averaged point: one more waypoint, with an AVG- id
AveragedPointSaved ==
    /\ Len(waypoints') = Len(waypoints) + 1
    /\ waypoints'[Len(waypoints')].id[1] = "AVG-"

\* C3: a successful save of an averaged point resets the session: right
\* after it the sample list is empty and the session is not active.
C3_SaveResetsSession ==
    [][AveragedPointSaved =>
         averaging'.samples = <<>> /\ ~averaging'.active]_vars

\* C4: no two waypoints of the collection have the same id.
C4_WaypointIdsUnique ==
    \A i, j \in 1..Len(waypoints) :
        i # j => waypoints[i].id # waypoints[j].id

\* C5: for every longitude in [-180, 180] the zone toUtm returns is in 1..60.
C5_ZoneInRange == utmOut # NoUtm => utmOut.zone \in 1..60

\* C6: a fix whose accuracy exceeds maxAccM is appended to the track, its
\* speed (km/h) and altitude are pushed to the history buffers, and it raises
\* no proximity alert.
C6_LowAccuracyFixRecorded ==
    [][(/\ FixProcessed
        /\ lastPosition'.accuracy # Null
        /\ lastPosition'.accuracy > settings.maxAccM) =>
         /\ trackCoords' = Append(trackCoords, FixPoint(lastPosition'))
         /\ speedHistory' =
                IF lastPosition'.speed # Null
                THEN LastN(Append(speedHistory,
                                  (lastPosition'.speed * 36) \div 10), 60)
                ELSE speedHistory
         /\ altHistory' =
                IF lastPosition'.altitude # Null
                THEN LastN(Append(altHistory, lastPosition'.altitude), 60)
                ELSE altHistory
         /\ alert' = NoAlert]_vars

\* C6 witness: a waypoint was marked from a fix of accuracy 10 m, and the
\* latest fix, of accuracy 25 m > maxAccM, lies on that very waypoint: it is
\* the last track point and the last history entries, and no alert is up.
C6_Witness ==
    /\ lastPosition.accuracy = 25
    /\ lastPosition.accuracy > settings.maxAccM
    /\ Len(waypoints) > 0
    /\ waypoints[1].accuracyM = 10
    /\ waypoints[1].lat = lastPosition.latitude
    /\ waypoints[1].lon = lastPosition.longitude
    /\ alert = NoAlert
    /\ Len(trackCoords) = 2
    /\ trackCoords[2] = FixPoint(lastPosition)
    /\ Len(speedHistory) = 2
    /\ speedHistory[2] = 18
    /\ Len(altHistory) = 2

\* C7: a fix raises a proximity alert if and only if there is a waypoint,
\* the least distance from the fix to a waypoint is at most alertRadiusM, and
\* the fix passed the accuracy filter.
C7_AlertIffNearAndReliable ==
    [][FixProcessed =>
         ((alert' # NoAlert) <=>
            /\ Len(waypoints) > 0
            /\ \E i \in 1..Len(waypoints) :
                  TurfDistance2(FixPoint(lastPosition'),
                                <<waypoints[i].lat, waypoints[i].lon>>)
                      <= M(settings.alertRadiusM) * M(settings.alertRadiusM)
            /\ ~(/\ lastPosition'.accuracy # Null
                 /\ lastPosition'.accuracy > settings.maxAccM))]_vars

\* C7 witness: an alert is up for a waypoint exactly alertRadiusM away.
C7_Witness ==
    /\ alert # NoAlert
    /\ Len(waypoints) > 0
    /\ alert.d2 = M(settings.alertRadiusM) * M(settings.alertRadiusM)
    /\ alert.d2 = TurfDistance2(FixPoint(lastPosition),
                                <<waypoints[1].lat, waypoints[1].lon>>)

\* C8: each history buffer holds at most 60 entries and equals the last
\* min(n, 60) of the n values pushed to it, in arrival order.
C8_HistoryIsLast60 ==
    /\ Len(speedHistory) <= 60
    /\ Len(altHistory) <= 60
    /\ speedHistory = LastN(speedPushed, 60)
    /\ altHistory = LastN(altPushed, 60)

\* C8 witness: 61 values were pushed to each buffer; the 1st is gone and the
\* 61st is the last entry.
C8_Witness ==
    /\ Len(speedPushed) = 61
    /\ Len(altPushed) = 61
    /\ Len(speedHistory) = 60
    /\ speedHistory[1] = speedPushed[2]
    /\ speedHistory[60] = speedPushed[61]
    /\ \A k \in 1..60 : speedHistory[k] # speedPushed[1]
    /\ altHistory[1] = altPushed[2]
    /\ altHistory[60] = altPushed[61]

\* C9: when a fix reports no heading and an earlier fix was processed, the
\* derived course is the initial bearing, normalized to [0, 360), from the
\* previous processed fix to this one.
C9_CourseFromPreviousFix ==
    [][(/\ FixProcessed
        /\ fixCount > 0
        /\ ~HasHeading(lastPosition'.heading)) =>
         hdg' = (TurfBearing(FixPoint(lastPosition),
                             FixPoint(lastPosition')) + 360) % 360]_vars

\* C10: when the first fix ever processed reports no heading, its derived
\* course is null.
C10_FirstCourseUndefined ==
    [][(/\ FixProcessed
        /\ fixCount = 0
        /\ ~HasHeading(lastPosition'.heading)) =>
         hdg' = Null]_vars

-----------------------------------------------------------------------------
(* Claims about the averaging dialog, the navigation target and the GPS     *)
(* status.  A step with steps' # steps and called' = h is a call of h.      *)

Calls(h) == steps' # steps /\ called' = h

RECURSIVE SeqSum(_)
SeqSum(q) == IF q = <<>> THEN 0 ELSE Head(q) + SeqSum(Tail(q))

SampleLats(samples) == [k \in 1..Len(samples) |-> samples[k].lat]
SampleLons(samples) == [k \in 1..Len(samples) |-> samples[k].lon]

\* the accuracies of the samples that have one, in order
RECURSIVE KnownAccuracies(_)
KnownAccuracies(samples) ==
    IF samples = <<>>
    THEN <<>>
    ELSE IF Head(samples).acc # Null
         THEN <<Head(samples).acc>> \o KnownAccuracies(Tail(samples))
         ELSE KnownAccuracies(Tail(samples))

\* C11: saving the averaged point while the sample list is empty raises the
\* "no samples" error and leaves the waypoints, the navigation target and the
\* averaging session as they were.
C11_EmptySaveChangesNothing ==
    [][(Calls("saveAveragedPoint") /\ averaging.samples = <<>>) =>
         /\ toasted' = <<"no samples", "error">>
         /\ waypoints' = waypoints
         /\ navTarget' = navTarget
         /\ averaging' = averaging]_vars

\* C11 witness: the save was refused while a waypoint was in the collection
\* and a navigation target was set; both are still there.
C11_Witness ==
    /\ called = "saveAveragedPoint"
    /\ toasted = <<"no samples", "error">>
    /\ averaging.samples = <<>>
    /\ Len(waypoints) = 1
    /\ navTarget # NoTarget
    /\ navTarget.label = waypoints[1].id

\* C12: saving the averaged point with n > 0 samples appends exactly one
\* waypoint and leaves the earlier ones as they were; its latitude is the
\* mean of the samples' latitudes, its longitude the mean of their
\* longitudes, and its id has the AVG- prefix, which no id of a marked or
\* imported waypoint has.
C12_SaveAppendsMeanPoint ==
    [][(Calls("saveAveragedPoint") /\ averaging.samples # <<>>) =>
         LET n == Len(averaging.samples)
             wp == waypoints'[Len(waypoints')]
         IN  /\ Len(waypoints') = Len(waypoints) + 1
             /\ SubSeq(waypoints', 1, Len(waypoints)) = waypoints
             /\ wp.lat * n = SeqSum(SampleLats(averaging.samples))
             /\ wp.lon * n = SeqSum(SampleLons(averaging.samples))
             /\ wp.id[1] = "AVG-"
             /\ \A ms \in 0..MaxClock, suffix \in RandSuffixes :
                   wp.id # ManualId(ms) /\ wp.id # RawId(ms, suffix)]_vars

\* C12 witness: two samples 30 m apart in latitude, and 31 m apart in
\* longitude the other way, were averaged into a waypoint half way between.
C12_Witness ==
    /\ called = "saveAveragedPoint"
    /\ Len(averaging.samples) = 2
    /\ averaging.samples[1].lat = M(30)
    /\ averaging.samples[1].lon = M(0)
    /\ averaging.samples[2].lat = M(0)
    /\ averaging.samples[2].lon = M(31)
    /\ Len(waypoints) = 1
    /\ waypoints[1].id[1] = "AVG-"
    /\ waypoints[1].lat = M(15)
    /\ 2 * waypoints[1].lon = M(31)

\* C13: the waypoint a save of the averaged point appends carries the mean of
\* the samples' accuracies that are not null, or null when there is none.
C13_SavedPointCarriesMeanAccuracy ==
    [][(Calls("saveAveragedPoint") /\ averaging.samples # <<>>) =>
         LET accs == KnownAccuracies(averaging.samples)
             wp == waypoints'[Len(waypoints')]
         IN  IF accs = <<>>
             THEN wp.accuracyM = Null
             ELSE /\ wp.accuracyM # Null
                  /\ wp.accuracyM * Len(accs) = SeqSum(accs)]_vars

\* C14: while the session is not active, no fix, orientation sample,
\* position error or refused save changes the sample list or the session.
C14_StoppedSessionFrozen ==
    [][(/\ ~averaging.active
        /\ \/ Calls("onPosition")
           \/ Calls("onOrientation")
           \/ Calls("onPositionError")
           \/ Calls("saveAveragedPoint") /\ toasted'[2] = "error") =>
         averaging' = averaging]_vars

\* C14 witness: the session was stopped with one sample, and a fix that
\* passes the accuracy filter, at another place, has arrived since: the list
\* still holds that one sample.
C14_Witness ==
    /\ called = "onPosition"
    /\ ~averaging.active
    /\ Len(averaging.samples) = 1
    /\ fixCount = 2
    /\ PassesAccuracyFilter(lastPosition.accuracy, settings.maxAccM)
    /\ averaging.samples[1].lat # lastPosition.latitude

\* C15: start leaves the session active with no samples, and reset leaves it
\* not active with no samples.
C15_StartAndResetClearSamples ==
    [][/\ Calls("startAveraging") =>
            averaging' = [active |-> TRUE, samples |-> <<>>]
       /\ Calls("resetAveraging") =>
            averaging' = [active |-> FALSE, samples |-> <<>>]]_vars

\* C15 witness: samples were taken and saved as an averaged waypoint, which
\* leaves them in the list, and the session was then started anew: it is
\* active and has no samples.
C15_Witness ==
    /\ called = "startAveraging"
    /\ averaging = [active |-> TRUE, samples |-> <<>>]
    /\ Len(waypoints) = 1
    /\ waypoints[1].id[1] = "AVG-"

\* C16: for every absolute bearing and heading in [0, 360) the relative
\* bearing is ((absolute - heading) + 360) mod 360, a value of [0, 360);
\* bearing 350 and heading 20 give 330, bearing 10 and heading 350 give 20.
C16_RelativeBearingWraps ==
    relOut # Null =>
        /\ relOut \in 0..359
        /\ relOut = ((relIn[1] - relIn[2]) + 360) % 360
        /\ (relOut - (relIn[1] - relIn[2])) % 360 = 0
        /\ relIn = <<350, 20>> => relOut = 330
        /\ relIn = <<10, 350>> => relOut = 20

\* C16 witness: bearing 10 and heading 350 gave 20.
C16_Witness == relIn = <<10, 350>> /\ relOut = 20

\* C17: a go-to-UTM submission whose zone, easting or northing is not a
\* finite number raises the "invalid input" error and changes neither the
\* navigation target nor the waypoints; one whose three numbers are finite
\* and whose band is empty raises no error and sets the target.
C17_InvalidGotoChangesNothing ==
    [][Calls("onGotoUtmSubmit") =>
         IF ~IsFinite(args'[1]) \/ ~IsFinite(args'[3]) \/ ~IsFinite(args'[4])
         THEN /\ toasted' = <<"invalid input", "error">>
              /\ navTarget' = navTarget
              /\ waypoints' = waypoints
              /\ navLine' = navLine
              /\ navOverlay' = navOverlay
         ELSE args'[2] = "" =>
                 /\ toasted'[2] # "error"
                 /\ navTarget' # NoTarget
                 /\ navTarget'.label =
                        <<"UTM", args'[1], "", args'[3], args'[4]>>]_vars

\* C17 witness: a submission with a band and no easting was refused while a
\* waypoint was the navigation target; it still is.
C17_Witness ==
    /\ called = "onGotoUtmSubmit"
    /\ args = <<31, "M", NaN, M(30)>>
    /\ toasted = <<"invalid input", "error">>
    /\ Len(waypoints) = 1
    /\ navTarget # NoTarget
    /\ navTarget.label = waypoints[1].id

\* C18: there is one navigation target at most, and setting one replaces the
\* one before: right after navigating to a listed waypoint or submitting a
\* valid go-to-UTM form the target is the new one, the waypoint of that id
\* or the UTM point, and there is no nav line.
C18_NewTargetReplacesOld ==
    [][/\ Calls("navigateTo") =>
            /\ navTarget'.label = waypoints[args'[1]].id
            /\ \E j \in 1..Len(waypoints) :
                  /\ waypoints[j].id = navTarget'.label
                  /\ navTarget'.lat = waypoints[j].lat
                  /\ navTarget'.lon = waypoints[j].lon
            /\ navLine' = NoLine
       /\ (Calls("onGotoUtmSubmit") /\ toasted'[2] # "error") =>
            /\ navTarget'.label =
                   <<"UTM", args'[1], args'[2], args'[3], args'[4]>>
            /\ navTarget'.lon = args'[3]
            /\ navTarget'.lat \in {args'[4], args'[4] - M(60)}
            /\ navLine' = NoLine]_vars

\* C18 witness: a UTM target was set, a fix with a heading that passes the
\* accuracy filter drew the arrow and the nav line to it, and a second UTM
\* target, at another place, was then set: it is the target, the line is
\* gone, and the arrow still shows the distance to the first.
C18_Witness ==
    /\ called = "onGotoUtmSubmit"
    /\ navTarget # NoTarget
    /\ navTarget.label = <<"UTM", args[1], args[2], args[3], args[4]>>
    /\ navLine = NoLine
    /\ lastPosition # NoFix
    /\ lastPosition.accuracy = 10
    /\ navArrow # ArrowHidden
    /\ navArrow.d2 # TurfDistance2(FixPoint(lastPosition),
                                   <<navTarget.lat, navTarget.lon>>)

\* C19: in every reachable state with no navigation target the overlay is
\* hidden.
C19_NoTargetOverlayHidden ==
    navTarget = NoTarget => navOverlay = OverlayHidden

\* C20: a position error changes the GPS status only: the last position, the
\* track, the history buffers, the waypoints, the navigation target and the
\* averaging session are as before, and so are the settings, the tracking
\* flag and the rest of the page.
C20_PositionErrorOnlyStatus ==
    [][Calls("onPositionError") =>
         /\ gpsOnline' = FALSE
         /\ lastPosition' = lastPosition
         /\ trackCoords' = trackCoords
         /\ speedHistory' = speedHistory
         /\ altHistory' = altHistory
         /\ waypoints' = waypoints
         /\ navTarget' = navTarget
         /\ averaging' = averaging
         /\ UNCHANGED <<navLine, navOverlay, navArrow, compass, settings,
                        trackingEnabled>>]_vars

\* C20 witness: a position error came after a fix that was sampled by an
\* active averaging session: the fix is still the last position, on the
\* track and in the histories and the sample list, and the status is off.
C20_Witness ==
    /\ called = "onPositionError"
    /\ ~gpsOnline
    /\ lastPosition # NoFix
    /\ trackCoords = <<FixPoint(lastPosition)>>
    /\ Len(speedHistory) = 1
    /\ Len(altHistory) = 1
    /\ averaging.active
    /\ Len(averaging.samples) = 1

-----------------------------------------------------------------------------
(* Claims about the proximity scan, the band letter, the track, the          *)
(* hemisphere rules, deletion, setNavTarget and the rejected fix             *)

\* the squared distance from the fix just processed to waypoint i
FixToWaypoint2(fix, i) ==
    TurfDistance2(FixPoint(fix), <<waypoints[i].lat, waypoints[i].lon>>)

\* C21: the waypoint a proximity alert names is one at the least distance
\* from the fix, and among the waypoints at that least distance the first in
\* collection order.
C21_NearestFirstOnTie ==
    [][(Calls("onPosition") /\ alert' # NoAlert) =>
         \E i \in 1..Len(waypoints) :
            /\ alert'.id = waypoints[i].id
            /\ alert'.d2 = FixToWaypoint2(lastPosition', i)
            /\ \A j \in 1..Len(waypoints) :
                  FixToWaypoint2(lastPosition', j) >= alert'.d2
            /\ \A j \in 1..(i - 1) :
                  FixToWaypoint2(lastPosition', j) > alert'.d2]_vars

\* C21 witness: of three waypoints with three ids the second and the third
\* are both 30 m from the fix and the first is farther; the alert names the
\* second.
C21_Witness ==
    /\ called = "onPosition"
    /\ Len(waypoints) = 3
    /\ waypoints[2].id # waypoints[3].id
    /\ <<waypoints[2].lat, waypoints[2].lon>>
           # <<waypoints[3].lat, waypoints[3].lon>>
    /\ FixToWaypoint2(lastPosition, 2) = FixToWaypoint2(lastPosition, 3)
    /\ FixToWaypoint2(lastPosition, 1) > FixToWaypoint2(lastPosition, 2)
    /\ alert # NoAlert
    /\ alert.id = waypoints[2].id

\* C22: for every latitude toUtm's band letter is
\* bands[clamp(floor((lat + 80) / 8), 0, 19)], one of the 20 letters of
\* "CDEFGHJKLMNPQRSTUVWX", below -80 and from 84 on as well, and no higher
\* latitude has an earlier letter.
C22_BandClampedAndMonotone ==
    utmOut # NoUtm =>
        LET lat == utmIn[1]
            index == (lat + 80) \div 8
            clamped == IF index < 0 THEN 0 ELSE IF index > 19 THEN 19 ELSE index
        IN  /\ Len(Bands) = 20
            /\ \E k \in 1..20 : utmOut.band = Bands[k]
            /\ utmOut.band = Bands[clamped + 1]
            /\ \A higher \in UtmLatitudes :
                  higher >= lat =>
                     LetterRank(latToBand(higher)) >= LetterRank(utmOut.band)

\* C22 witness: latitude 90, whose index 21 is past the last letter, has
\* band X.
C22_Witness == utmIn[1] = 90 /\ utmOut # NoUtm /\ utmOut.band = "X"

\* C24: for every latitude the band toUtm returns is at or after N, which is
\* the northern test of the go-to-UTM form, exactly when the latitude is at
\* least 0, which is the northern test toUtm projects with.
C24_HemisphereRulesAgree ==
    utmOut # NoUtm =>
        /\ LetterRank(utmOut.band) >= LetterRank("N") <=> utmIn[1] >= 0
        /\ utmOut.northern <=> utmIn[1] >= 0
        /\ GotoIsNorthern(utmOut.band) <=> utmOut.northern

\* C24 witness: latitude 0 is projected as northern and has band N, the
\* first band the form takes for northern.
C24_Witness ==
    /\ utmIn[1] = 0
    /\ utmOut # NoUtm
    /\ utmOut.band = "N"
    /\ utmOut.northern
    /\ GotoIsNorthern(utmOut.band)

\* the finite points of a parsed track, in file order
FiniteOnly(parsed) == SelectSeq(parsed, FinitePoint)

\* every trkpt list and every LineString an imported file can hold
ParsedTrackChoices ==
    ParsedTracks \cup
        UNION { { lines[k] : k \in 1..Len(lines) } : lines \in ParsedLineLists }

\* C23: a processed fix appends its point to the end of the track and leaves
\* the points before it as they were, a point equal to the last one
\* included; any other change of the track is made by an import and puts
\* the finite points of a track of the file, at least one, in its place.
C23_TrackAppendOnlyBetweenImports ==
    [][/\ Calls("onPosition") =>
            /\ Len(trackCoords') = Len(trackCoords) + 1
            /\ SubSeq(trackCoords', 1, Len(trackCoords)) = trackCoords
            /\ trackCoords'[Len(trackCoords')] = FixPoint(args'[1])
       /\ (~Calls("onPosition") /\ trackCoords' # trackCoords) =>
            /\ Calls("importGPX") \/ Calls("importKML")
            /\ Len(trackCoords') >= 1
            /\ \E parsed \in ParsedTrackChoices :
                  trackCoords' = FiniteOnly(parsed)]_vars

\* C23 witness: a track of two points was imported and two fixes at one and
\* the same place followed: the track is the two imported points and then
\* that place twice.
C23_Witness ==
    /\ called = "onPosition"
    /\ importCount = 1
    /\ fixCount = 2
    /\ Len(trackCoords) = 4
    /\ trackCoords[1] # trackCoords[2]
    /\ trackCoords[3] = trackCoords[4]
    /\ trackCoords[4] = FixPoint(lastPosition)

\* no waypoint of the collection has the id the target was set from
TargetWaypointGone ==
    /\ navTarget # NoTarget
    /\ \A k \in 1..Len(waypoints) : waypoints[k].id # navTarget.label

\* C25: deleting a waypoint leaves the navigation target, the navigation line
\* and the overlay as they were, the target set from that waypoint included;
\* a fix that passes the accuracy filter then still measures distance and
\* bearing to the coordinates the target holds; the target changes only
\* when it is set, replaced or cleared.
C25_DeleteKeepsNavTarget ==
    [][/\ Calls("deleteWaypoint") =>
            /\ navTarget' = navTarget
            /\ navLine' = navLine
            /\ navOverlay' = navOverlay
            /\ \A k \in 1..Len(waypoints') : waypoints'[k].id # args'[1]
       /\ (/\ Calls("onPosition")
           /\ navTarget # NoTarget
           /\ PassesAccuracyFilter(args'[1].accuracy, settings.maxAccM)) =>
            LET to == <<navTarget.lat, navTarget.lon>>
            IN  /\ navTarget' = navTarget
                /\ navLine' = <<FixPoint(args'[1]), to>>
                /\ navOverlay'[2] = navTarget.label
                /\ navOverlay'[3] = TurfDistance2(FixPoint(args'[1]), to)
       /\ navTarget' # navTarget =>
            called' \in {"setNavTarget", "navigateTo", "clearNav",
                         "onGotoUtmSubmit"}]_vars

\* C25 witness: the target was set from a stored waypoint, that waypoint was
\* deleted, and the next fix drew the line to the deleted waypoint's place
\* and showed the distance to it.
C25_Witness ==
    /\ called = "onPosition"
    /\ steps = 3
    /\ TargetWaypointGone
    /\ navTarget.label = RawId(0, "a")
    /\ navLine = <<FixPoint(lastPosition), <<navTarget.lat, navTarget.lon>>>>
    /\ navOverlay # OverlayHidden
    /\ navOverlay[2] = RawId(0, "a")

\* waypoint k is the first of the collection with this id
FirstWithId(wps, id, k) ==
    /\ wps[k].id = id
    /\ \A j \in 1..(k - 1) : wps[j].id # id

\* C26: setNavTarget with a waypoint id that no waypoint of the collection
\* has leaves no target and no navigation line, whatever the target was
\* before, and touches nothing else, which is what the explicit clear does;
\* with an id of the collection the target is a copy of that waypoint.
C26_UnknownIdClearsNavigation ==
    [][/\ (/\ Calls("setNavTarget")
           /\ \A k \in 1..Len(waypoints) : waypoints[k].id # args'[1]) =>
            /\ navTarget' = NoTarget
            /\ navLine' = NoLine
            /\ UNCHANGED <<navOverlay, navArrow, compass, waypoints>>
       /\ Calls("clearNav") =>
            /\ navTarget' = NoTarget
            /\ navLine' = NoLine
            /\ UNCHANGED <<navOverlay, navArrow, compass, waypoints>>
       /\ \A k \in 1..Len(waypoints) :
            (Calls("setNavTarget") /\ FirstWithId(waypoints, args'[1], k)) =>
                navTarget' = [lat |-> waypoints[k].lat,
                              lon |-> waypoints[k].lon,
                              label |-> waypoints[k].id]]_vars

\* C26 witness: a target was set from a stored waypoint and a fix showed the
\* overlay for it; setNavTarget with an id the collection does not hold then
\* left no target and no line.
C26_Witness ==
    /\ called = "setNavTarget"
    /\ args = <<RawId(0, "z")>>
    /\ Len(waypoints) >= 1
    /\ \A k \in 1..Len(waypoints) : waypoints[k].id # RawId(0, "z")
    /\ navOverlay # OverlayHidden
    /\ navOverlay[2] = RawId(0, "a")
    /\ navTarget = NoTarget
    /\ navLine = NoLine

\* the accuracy filter turns this fix away under these settings
RejectedByFilter(fix, maxAccM) ==
    fix.accuracy # Null /\ fix.accuracy > maxAccM

=============================================================================
